---- MODULE Spec2Model ----
(***************************************************************************)
(* Model of the WAHA VPS orchestrator: the control node                    *)
(* (src/orchestrator/app.py) and the runner (src/runner/runner.py),        *)
(* joined by the message bus.                                              *)
(*                                                                         *)
(* Text is modelled as a sequence of one-character strings, so that the    *)
(* parser, the regular expressions and the shell-style word splitting are  *)
(* computed the way the code computes them.                                *)
(***************************************************************************)
EXTENDS Integers, Sequences, FiniteSets, TLC

(***************************************************************************)
(* String helpers (Python str methods used by the code)                    *)
(***************************************************************************)

\* Characters Python's str.strip()/split() and the regex class \s treat as
\* whitespace (the ones that occur in the modelled texts).
WS == {" ", "\n", "\t"}

Drop(s, n) == SubSeq(s, n + 1, Len(s))

Take(s, n) == SubSeq(s, 1, n)

\* s[i:] starts with p (1-based i)
StartsAt(s, i, p) ==
    /\ i >= 1
    /\ i + Len(p) - 1 <= Len(s)
    /\ SubSeq(s, i, i + Len(p) - 1) = p

RECURSIVE lstrip(_)
lstrip(s) == IF s # <<>> /\ Head(s) \in WS THEN lstrip(Tail(s)) ELSE s

RECURSIVE rstrip(_)
rstrip(s) == IF s # <<>> /\ s[Len(s)] \in WS THEN rstrip(Take(s, Len(s) - 1)) ELSE s

strip(s) == lstrip(rstrip(s))

RECURSIVE lstripQ(_)
lstripQ(s) == IF s # <<>> /\ Head(s) = "\"" THEN lstripQ(Tail(s)) ELSE s

RECURSIVE rstripQ(_)
rstripQ(s) == IF s # <<>> /\ s[Len(s)] = "\"" THEN rstripQ(Take(s, Len(s) - 1)) ELSE s

\* str.strip('"')
stripQuotes(s) == lstripQ(rstripQ(s))

\* Smallest index >= i whose character is in set cs, or Len(s)+1
RECURSIVE FindIn(_, _, _)
FindIn(s, i, cs) ==
    IF i > Len(s) THEN Len(s) + 1
    ELSE IF s[i] \in cs THEN i ELSE FindIn(s, i + 1, cs)

\* Smallest index >= i whose character is NOT in set cs, or Len(s)+1
RECURSIVE FindNotIn(_, _, _)
FindNotIn(s, i, cs) ==
    IF i > Len(s) THEN Len(s) + 1
    ELSE IF s[i] \notin cs THEN i ELSE FindNotIn(s, i + 1, cs)

\* Smallest index >= i at which p occurs in s, or 0
RECURSIVE FindStr(_, _, _)
FindStr(s, i, p) ==
    IF i + Len(p) - 1 > Len(s) THEN 0
    ELSE IF StartsAt(s, i, p) THEN i ELSE FindStr(s, i + 1, p)

UPPER == <<"A","B","C","D","E","F","G","H","I","J","K","L","M",
           "N","O","P","Q","R","S","T","U","V","W","X","Y","Z">>

LOWER == <<"a","b","c","d","e","f","g","h","i","j","k","l","m",
           "n","o","p","q","r","s","t","u","v","w","x","y","z">>

lowerChar(c) ==
    IF \E k \in 1..26 : UPPER[k] = c
    THEN LOWER[CHOOSE k \in 1..26 : UPPER[k] = c]
    ELSE c

\* str.lower()
lower(s) == [k \in 1..Len(s) |-> lowerChar(s[k])]

\* str.split(): the maximal runs of non-whitespace characters
RECURSIVE split(_)
split(s) ==
    LET t == lstrip(s)
        e == FindIn(t, 1, WS)
    IN  IF t = <<>> THEN <<>>
        ELSE <<Take(t, e - 1)>> \o split(Drop(t, e - 1))

\* " ".join(words)
RECURSIVE join(_)
join(ws) ==
    IF ws = <<>> THEN <<>>
    ELSE IF Len(ws) = 1 THEN ws[1]
    ELSE ws[1] \o <<" ">> \o join(Tail(ws))

(***************************************************************************)
(* Command Parser: parse_command (app.py 68-108)                           *)
(***************************************************************************)

\* Python's None for an optional string is the empty tuple, a present string
\* x is <<x>>.
None == <<>>

Some(x) == <<x>>

S_host == <<"h","o","s","t","=">>

S_cmd == <<"c","m","d","=">>

S_run == <<"/","r","u","n">>

S_dev == <<"d","e","v">>

\* re.search(r"host=([^\s]+)", s): start of the leftmost match at or after i,
\* or 0
RECURSIVE HostMatchAt(_, _)
HostMatchAt(s, i) ==
    LET j == FindStr(s, i, S_host)
    IN  IF j = 0 THEN 0
        ELSE IF j + 5 <= Len(s) /\ s[j + 5] \notin WS THEN j
        ELSE HostMatchAt(s, j + 1)

\* group(1) of the host match that starts at j
HostGroup(s, j) == SubSeq(s, j + 5, FindIn(s, j + 5, WS) - 1)

\* host.group(1) if host else "dev"
host_id(s) ==
    LET j == HostMatchAt(s, 1)
    IN  IF j = 0 THEN S_dev ELSE HostGroup(s, j)

\* First alternative of cmd=("([^"]*)"|\S.*)$ at k, the index after "cmd=":
\* a quoted string that ends the text
CmdQuotedAt(s, k) ==
    /\ k <= Len(s)
    /\ s[k] = "\""
    /\ FindIn(s, k + 1, {"\""}) = Len(s)
    /\ Len(s) > k

\* Second alternative: a non-space character and the rest of the line
CmdBareAt(s, k) ==
    /\ k <= Len(s)
    /\ s[k] \notin WS
    /\ FindIn(s, k + 1, {"\n"}) = Len(s) + 1

\* re.search(r"cmd=(\"([^\"]*)\"|\S.*)$", s): start of the leftmost match at or
\* after i, or 0
RECURSIVE CmdMatchAt(_, _)
CmdMatchAt(s, i) ==
    LET j == FindStr(s, i, S_cmd)
    IN  IF j = 0 THEN 0
        ELSE IF CmdQuotedAt(s, j + 4) \/ CmdBareAt(s, j + 4) THEN j
        ELSE CmdMatchAt(s, j + 1)

\* cmd_str of the /exec branch (lines 86-93): None without a match, group(2)
\* for the quoted alternative, group(1) otherwise
cmd_str_of(s) ==
    LET j == CmdMatchAt(s, 1)
    IN  IF j = 0 THEN None
        ELSE IF CmdQuotedAt(s, j + 4) THEN Some(SubSeq(s, j + 5, Len(s) - 1))
        ELSE Some(Drop(s, j + 3))

\* r"/run(?:\s+host=[^\s]+)?\s+\"([^\"]+)\"" tried at position i: the prompt
\* group as an optional string
RunQuotedAt(s, i) ==
    IF ~StartsAt(s, i, S_run) THEN None
    ELSE
      LET p == FindNotIn(s, i + 4, WS)          \* after \s*
          hasWs == p > i + 4
          hostTok == /\ hasWs
                     /\ StartsAt(s, p, S_host)
                     /\ p + 5 <= Len(s)
                     /\ s[p + 5] \notin WS
          e == FindIn(s, p + 5, WS)             \* end of the host token
          q == IF hostTok THEN FindNotIn(s, e, WS) ELSE p
          wsOk == IF hostTok THEN q > e ELSE hasWs
          c == FindIn(s, q + 1, {"\""})         \* closing quote
      IN  IF /\ wsOk
             /\ q <= Len(s)
             /\ s[q] = "\""
             /\ c <= Len(s)
             /\ c > q + 1
          THEN Some(SubSeq(s, q + 1, c - 1))
          ELSE None

RECURSIVE RunQuoted(_, _)
RunQuoted(s, i) ==
    IF i > Len(s) THEN None
    ELSE IF RunQuotedAt(s, i) # None THEN RunQuotedAt(s, i)
    ELSE RunQuoted(s, i + 1)

\* re.sub(r"/run", "", s, count=1)
SubRunOnce(s) ==
    LET j == FindStr(s, 1, S_run)
    IN  IF j = 0 THEN s ELSE Take(s, j - 1) \o Drop(s, j + 3)

\* re.sub(r"host=[^\s]+", "", s)
RECURSIVE SubHosts(_)
SubHosts(s) ==
    LET j == HostMatchAt(s, 1)
    IN  IF j = 0 THEN s
        ELSE Take(s, j - 1) \o SubHosts(Drop(s, FindIn(s, j + 5, WS) - 1))

\* prompt of the /run branch (lines 99-106)
prompt_of(s) ==
    LET q == RunQuoted(s, 1)
    IN  IF q # None THEN q[1] ELSE strip(SubHosts(SubRunOnce(s)))

\* tail.strip().split()[0] if tail.strip() else ""
first_word(tail) == IF strip(tail) = <<>> THEN <<>> ELSE split(strip(tail))[1]

parse_command(text) ==
    LET s == strip(text)
        sp == FindIn(s, 1, {" "})
        head == lower(Take(s, sp - 1))
        tail == Drop(s, sp)
    IN  IF s = <<>> THEN [type |-> "noop"]
        ELSE IF head = <<"/","h","o","s","t","s">> THEN [type |-> "hosts"]
        ELSE IF head = <<"/","l","o","g","s">> THEN
            IF first_word(tail) # <<>>
            THEN [type |-> "logs", job_id |-> first_word(tail)]
            ELSE [type |-> "noop"]
        ELSE IF head = <<"/","s","t","o","p">> THEN
            IF first_word(tail) # <<>>
            THEN [type |-> "stop", job_id |-> first_word(tail)]
            ELSE [type |-> "noop"]
        ELSE IF head = <<"/","e","x","e","c">> THEN
            [type |-> "exec", host |-> host_id(s), cmd |-> cmd_str_of(s)]
        ELSE IF head = S_run THEN
            [type |-> "run", host |-> host_id(s), prompt |-> prompt_of(s)]
        ELSE [type |-> "noop"]

(***************************************************************************)
(* shlex.split (POSIX mode), used at app.py 234                            *)
(***************************************************************************)

\* The tokenizer of shlex in POSIX mode with whitespace_split: st is the
\* lexer state ("sp" between tokens, "a" in a word, "dq"/"sq" in a quoted
\* part, "bs" after a backslash), esc the state a backslash returns to.
\* The result is [ok |-> TRUE, toks |-> argv] or, for the ValueError of an
\* unclosed quotation or a trailing backslash, [ok |-> FALSE, toks |-> <<>>].
RECURSIVE ShlexRun(_, _, _, _, _, _, _)
ShlexRun(s, i, st, esc, tok, quoted, out) ==
    IF i > Len(s) THEN
        IF st \in {"dq", "sq", "bs"} THEN [ok |-> FALSE, toks |-> <<>>]
        ELSE IF st = "a" /\ (tok # <<>> \/ quoted)
             THEN [ok |-> TRUE, toks |-> Append(out, tok)]
        ELSE [ok |-> TRUE, toks |-> out]
    ELSE
      LET c == s[i]
      IN  CASE st = "sp" ->
                IF c \in WS THEN ShlexRun(s, i + 1, "sp", esc, <<>>, FALSE, out)
                ELSE IF c = "\\" THEN ShlexRun(s, i + 1, "bs", "a", <<>>, FALSE, out)
                ELSE IF c = "\"" THEN ShlexRun(s, i + 1, "dq", esc, <<>>, TRUE, out)
                ELSE IF c = "'" THEN ShlexRun(s, i + 1, "sq", esc, <<>>, TRUE, out)
                ELSE ShlexRun(s, i + 1, "a", esc, <<c>>, FALSE, out)
            [] st = "dq" ->
                IF c = "\"" THEN ShlexRun(s, i + 1, "a", esc, tok, TRUE, out)
                ELSE IF c = "\\" THEN ShlexRun(s, i + 1, "bs", "dq", tok, TRUE, out)
                ELSE ShlexRun(s, i + 1, "dq", esc, Append(tok, c), TRUE, out)
            [] st = "sq" ->
                IF c = "'" THEN ShlexRun(s, i + 1, "a", esc, tok, TRUE, out)
                ELSE ShlexRun(s, i + 1, "sq", esc, Append(tok, c), TRUE, out)
            [] st = "bs" ->
                IF esc = "dq" /\ c # "\\" /\ c # "\""
                THEN ShlexRun(s, i + 1, esc, esc, tok \o <<"\\", c>>, quoted, out)
                ELSE ShlexRun(s, i + 1, esc, esc, Append(tok, c), quoted, out)
            [] st = "a" ->
                IF c \in WS THEN
                    IF tok # <<>> \/ quoted
                    THEN ShlexRun(s, i + 1, "sp", esc, <<>>, FALSE, Append(out, tok))
                    ELSE ShlexRun(s, i + 1, "sp", esc, <<>>, FALSE, out)
                ELSE IF c = "\"" THEN ShlexRun(s, i + 1, "dq", esc, tok, TRUE, out)
                ELSE IF c = "'" THEN ShlexRun(s, i + 1, "sq", esc, tok, TRUE, out)
                ELSE IF c = "\\" THEN ShlexRun(s, i + 1, "bs", "a", tok, quoted, out)
                ELSE ShlexRun(s, i + 1, "a", esc, Append(tok, c), quoted, out)

shlex_split(s) == ShlexRun(s, 1, "sp", "a", <<>>, FALSE, <<>>)

(***************************************************************************)
(* Allowlist Gate: allowlisted (app.py 111-113, runner.py 17-18)           *)
(***************************************************************************)

\* set(ALLOWLIST.split()) for the value of the ALLOWLIST variable
AllowSet(allowlist) == {split(allowlist)[k] : k \in 1..Len(split(allowlist))}

\* Mutant: the membership test is left out
allowlisted_any(cmd, allow) == cmd # <<>>

\* bool(cmd) and cmd[0] in allow
allowlisted(cmd, allow) == cmd # <<>> /\ cmd[1] \in allow

(***************************************************************************)
(* Formatting and parsing of bus subjects and payloads                     *)
(***************************************************************************)

\* str(n) for an integer (f"{rc}")
RECURSIVE DigitsOf(_)
DigitsOf(n) ==
    LET d == <<"0","1","2","3","4","5","6","7","8","9">>
    IN  IF n < 10 THEN <<d[n + 1]>> ELSE DigitsOf(n \div 10) \o <<d[(n % 10) + 1]>>

IntStr(n) == IF n < 0 THEN <<"-">> \o DigitsOf(-n) ELSE DigitsOf(n)

S_runner == <<"r","u","n","n","e","r",".">>

S_exit == <<"e","x","i","t","-">>

S_running == <<"r","u","n","n","i","n","g">>

\* RUNNER_ID (runner.py 9, default)
RUNNER_ID == S_dev

\* f"runner.{host}.jobs"
JobsSubject(host) == S_runner \o host \o <<".","j","o","b","s">>

\* f"runner.{RUNNER_ID}.logs.{job_id}"
LogsSubject(job_id) == S_runner \o RUNNER_ID \o <<".","l","o","g","s",".">> \o job_id

\* f"runner.{RUNNER_ID}.done"
DoneSubject == S_runner \o RUNNER_ID \o <<".","d","o","n","e">>

StopSubject == S_runner \o <<"c","o","n","t","r","o","l",".","s","t","o","p">>

\* subject.split(".")[-1]
RECURSIVE LastSegment(_)
LastSegment(subject) ==
    LET d == FindIn(subject, 1, {"."})
    IN  IF d > Len(subject) THEN subject ELSE LastSegment(Drop(subject, d))

\* f"{job_id}|{rc}"
DonePayload(job_id, rc) == job_id \o <<"|">> \o rc

\* data.split("|", 1): <<job_id, rc>>, or <<>> for the ValueError of unpacking
\* a payload that holds no "|"
SplitBar(data) ==
    LET b == FindIn(data, 1, {"|"})
    IN  IF b > Len(data) THEN <<>> ELSE <<Take(data, b - 1), Drop(data, b)>>

\* f"exit-{rc}"
ExitStatus(rc) == S_exit \o rc

(***************************************************************************)
(* Inputs                                                                  *)
(***************************************************************************)

\* /exec cmd=git status
T_exec_git == <<"/","e","x","e","c"," ","c","m","d","=","g","i","t"," ","s","t","a","t","u","s">>

\* /EXEC host=dev cmd="npm ci"
T_exec_npm == <<"/","E","X","E","C"," ","h","o","s","t","=","d","e","v"," ","c","m","d","=","\"","n","p","m"," ","c","i","\"">>

\* /exec cmd=rm -rf /
T_exec_rm == <<"/","e","x","e","c"," ","c","m","d","=","r","m"," ","-","r","f"," ","/">>

\* /exec host=h1
T_exec_none == <<"/","e","x","e","c"," ","h","o","s","t","=","h","1">>

\* /exec cmd=git "status
T_exec_quote == <<"/","e","x","e","c"," ","c","m","d","=","g","i","t"," ","\"","s","t","a","t","u","s">>

\* /run do it
T_run_dev == <<"/","r","u","n"," ","d","o"," ","i","t">>

\* /run host=h1 "build it"
T_run_h1 == <<"/","r","u","n"," ","h","o","s","t","=","h","1"," ","\"","b","u","i","l","d"," ","i","t","\"">>

\* /logs 9c80a2
T_logs == <<"/","l","o","g","s"," ","9","c","8","0","a","2">>

\* /stop 1f3b07 now
T_stop == <<"/","s","t","o","p"," ","1","f","3","b","0","7"," ","n","o","w">>

\* /hosts
T_hosts == <<"/","h","o","s","t","s">>

\* hello
T_noop == <<"h","e","l","l","o">>

Texts == {T_exec_git, T_exec_npm, T_exec_rm, T_exec_none, T_exec_quote, T_run_dev, T_run_h1, T_logs, T_stop, T_hosts, T_noop}

\* Values of uuid.uuid4().hex[:6]
ID_A == <<"9","c","8","0","a","2">>

ID_B == <<"1","f","3","b","0","7">>

JobIds == {ID_A, ID_B}

\* Conversation ids of the chat transport
Chats == {"c1", "c2"}

\* Default ALLOWLIST (app.py 112, runner.py 11-14)
DEFAULT_ALLOWLIST == <<"c","c"," ","c","o","o","k","i","e","c","u","t","t","e","r"," ","g","i","t"," ","g","h"," ","p","n","p","m"," ","n","p","m"," ","n","o","d","e"," ","p","y","t","h","o","n"," ","u","v"," ","p","i","p"," ","p","y","t","e","s","t"," ","s","u","p","a","b","a","s","e"," ","d","o","c","k","e","r">>

\* Values of the ALLOWLIST environment variable of the control node
CtlAllowlists == {DEFAULT_ALLOWLIST, <<"g","i","t"," ","n","p","m">>}

\* Values of the ALLOWLIST environment variable of the runner
RunnerAllowlists == {DEFAULT_ALLOWLIST, <<"c","c"," ","g","i","t">>}

\* The allow sets of the configurations of the model
AllowSets == [a \in CtlAllowlists \cup RunnerAllowlists |-> AllowSet(a)]

\* parse_command over the texts of the model
Parsed == [t \in Texts |-> parse_command(t)]

(***************************************************************************)
(* Bounds                                                                  *)
(***************************************************************************)

\* Webhook requests handled in one behaviour
MaxReq == 2

\* Last value of the clock (seconds)
MaxTime == 4

\* Jobs created in one behaviour of the specifications that follow a job
\* beyond the webhook
MaxJobs == 1

(***************************************************************************)
(* State                                                                   *)
(***************************************************************************)

VARIABLES
    ctlAllow,      \* ALLOWLIST of the control node's environment
    runAllow,      \* ALLOWLIST of the runner's environment
    NATS_CLIENT,   \* app.py 40: TRUE for a connected client, FALSE for None
    JOBS,          \* app.py 37: job id -> job record
    LOG_BUFFERS,   \* app.py 38: insertion-ordered, <<[job_id, lines], ...>>
    LAST_SEND_TS,  \* app.py 39: job id -> time of the last flush
    clock,         \* time.time(), in seconds
    flush,         \* the flush_loop task
    hooks,         \* webhook handlers suspended in a bus publish
    nreq,          \* webhook requests received
    secrets,       \* their X-Webhook-Secret headers, in order
    responses,     \* HTTP responses of the webhook, in order
    published,     \* messages the control node published on the bus
    sends,         \* calls of send_whatsapp_text, in order
    created,       \* job ids the webhook assigned, in order
    jobsQ,         \* bus: messages pending on runner.<RUNNER_ID>.jobs
    logsQ,         \* bus: messages pending for the runner.*.logs.* subscription
    doneQ,         \* bus: messages pending for the runner.*.done subscription
    tasks,         \* runner: the exec_and_stream tasks, in creation order
    rpub,          \* messages the runner published on the bus
    nforeign,      \* envelopes other bus clients published
    narrive        \* bus messages the environment handed to the control node

ctlVars == <<NATS_CLIENT, JOBS, LOG_BUFFERS, LAST_SEND_TS, flush, hooks, nreq, secrets,
             responses, published, sends, created>>

busVars == <<jobsQ, logsQ, doneQ>>

cfgVars == <<ctlAllow, runAllow>>

runVars == <<tasks, rpub, nforeign, narrive>>

(***************************************************************************)
(* Job registry and log buffers                                            *)
(***************************************************************************)

\* Mutant: a job without a conversation falls back to a default one
ChatIdOf_default(jobs, job_id) ==
    IF job_id \in DOMAIN jobs /\ "chatId" \in DOMAIN jobs[job_id]
    THEN <<jobs[job_id].chatId>>
    ELSE <<"c1">>

\* JOBS.get(job_id, {}).get("chatId"), None as <<>>
ChatIdOf(jobs, job_id) ==
    IF job_id \in DOMAIN jobs /\ "chatId" \in DOMAIN jobs[job_id]
    THEN Some(jobs[job_id].chatId)
    ELSE None

\* JOBS[job_id] = value
SetJob(jobs, job_id, value) ==
    [j \in DOMAIN jobs \cup {job_id} |-> IF j = job_id THEN value ELSE jobs[j]]

\* Index of job_id's entry in the insertion-ordered LOG_BUFFERS, or 0
BufIndex(bufs, job_id) ==
    IF \E k \in 1..Len(bufs) : bufs[k].job_id = job_id
    THEN CHOOSE k \in 1..Len(bufs) : bufs[k].job_id = job_id
    ELSE 0

\* LOG_BUFFERS[job_id], with [] for a missing key
BufLines(bufs, job_id) ==
    IF BufIndex(bufs, job_id) = 0 THEN <<>> ELSE bufs[BufIndex(bufs, job_id)].lines

\* Mutant: the new line is put in front of the buffered ones
BufAppend_front(bufs, job_id, line) ==
    IF BufIndex(bufs, job_id) = 0
    THEN Append(bufs, [job_id |-> job_id, lines |-> <<line>>])
    ELSE [bufs EXCEPT ![BufIndex(bufs, job_id)].lines = <<line>> \o @]

\* LOG_BUFFERS.setdefault(job_id, []).append(line)
BufAppend(bufs, job_id, line) ==
    IF BufIndex(bufs, job_id) = 0
    THEN Append(bufs, [job_id |-> job_id, lines |-> <<line>>])
    ELSE [bufs EXCEPT ![BufIndex(bufs, job_id)].lines = Append(@, line)]

\* LOG_BUFFERS[job_id] = lines, for an existing key
BufSet(bufs, job_id, lines) ==
    [bufs EXCEPT ![BufIndex(bufs, job_id)].lines = lines]

\* LAST_SEND_TS.get(job_id, 0)
LastTs(last, job_id) == IF job_id \in DOMAIN last THEN last[job_id] ELSE 0

\* LAST_SEND_TS[job_id] = now
SetTs(last, job_id, now) ==
    [j \in DOMAIN last \cup {job_id} |-> IF j = job_id THEN now ELSE last[j]]

(***************************************************************************)
(* Bus subscription handlers of the control node (app.py 124-138)          *)
(***************************************************************************)

\* logs_handler (app.py 124-130) applied to one message
logs_handler(bufs, msg) ==
    BufAppend(bufs, LastSegment(msg.subject), rstrip(msg.data))

\* JOBS[job_id] = {**JOBS.get(job_id, {}), "status": f"exit-{rc}"}
MarkDone(jobs, job_id, rc) ==
    IF job_id \in DOMAIN jobs
    THEN [jobs EXCEPT ![job_id] =
            [f \in DOMAIN jobs[job_id] \cup {"status"} |->
                IF f = "status" THEN ExitStatus(rc) ELSE jobs[job_id][f]]]
    ELSE SetJob(jobs, job_id, [status |-> ExitStatus(rc)])

\* done_handler (app.py 132-138) applied to one message
done_handler(jobs, msg) ==
    IF SplitBar(msg.data) = <<>> THEN jobs
    ELSE MarkDone(jobs, SplitBar(msg.data)[1], SplitBar(msg.data)[2])

(***************************************************************************)
(* Flush scheduler: flush_loop (app.py 145-157)                            *)
(***************************************************************************)

\* Line 150: a buffer is flushed when it has waited this many seconds
FLUSH_AGE == 2

\* Line 150: or when it holds this many lines
FLUSH_THRESHOLD == 12

\* Lines 151-152: lines taken by one flush
FLUSH_BATCH == 12

\* Line 157: asyncio.sleep(1.0)
FLUSH_SLEEP == 1

Min(a, b) == IF a < b THEN a ELSE b

\* Line 150: lines and (now - last >= 2 or len(lines) >= 12)
FlushDue(lines, now, last) ==
    /\ lines # <<>>
    /\ (now - last >= FLUSH_AGE \/ Len(lines) >= FLUSH_THRESHOLD)

\* Mutant: the whole buffer goes into the batch
FlushChunk_all(lines) == lines

\* Mutant: the buffer is cleared
FlushRest_clear(lines) == <<>>

\* Line 151: lines[:12]
FlushChunk(lines) == Take(lines, Min(FLUSH_BATCH, Len(lines)))

\* Line 152: lines[12:]
FlushRest(lines) == Drop(lines, Min(FLUSH_BATCH, Len(lines)))

\* The text of a batch, f"```{chunk}```" with chunk = "\n".join(lines[:12]);
\* the joined lines are kept as a sequence, and job_id records which
\* buffer the batch was taken from (a history field, not part of the text)
BatchText(job_id, chunk) == [kind |-> "batch", job_id |-> job_id, lines |-> chunk]

\* The body of the for loop (lines 148-156) run over the job ids of snap, up
\* to the first await of send_whatsapp_text: the buffers and timestamps it
\* leaves, the job ids not yet visited and the send it is suspended in.
RECURSIVE FlushScan(_, _, _, _, _)
FlushScan(bufs, last, snap, now, jobs) ==
    IF snap = <<>>
    THEN [bufs |-> bufs, last |-> last, rest |-> <<>>, cur |-> None]
    ELSE
      LET job_id == Head(snap)
          lines == BufLines(bufs, job_id)
          chat == ChatIdOf(jobs, job_id)
      IN  IF FlushDue(lines, now, LastTs(last, job_id))
          THEN IF chat # None
               THEN [bufs |-> BufSet(bufs, job_id, FlushRest(lines)),
                     last |-> last,
                     rest |-> Tail(snap),
                     cur |-> Some([job_id |-> job_id, to |-> chat[1],
                                   text |-> BatchText(job_id, FlushChunk(lines))])]
               ELSE FlushScan(BufSet(bufs, job_id, FlushRest(lines)),
                              SetTs(last, job_id, now), Tail(snap), now, jobs)
          ELSE FlushScan(bufs, last, Tail(snap), now, jobs)

\* list(LOG_BUFFERS.items()): the job ids in insertion order (each lines
\* object is the one LOG_BUFFERS holds until the loop itself replaces it)
BufKeys(bufs) == [k \in 1..Len(bufs) |-> bufs[k].job_id]

\* The flush task after a scan: suspended in a send, or asleep
FlushAfter(r, now, t) ==
    IF r.cur # None
    THEN [pc |-> "send", now |-> now, rest |-> r.rest, cur |-> r.cur, wake |-> 0]
    ELSE [pc |-> "sleep", now |-> 0, rest |-> <<>>, cur |-> None,
          wake |-> t + FLUSH_SLEEP]

SendCall(to, text) == [to |-> to, text |-> text]

\* One pass of the while loop starts: lines 147-157 up to the first await
FlushCycle ==
    /\ \/ flush.pc = "start"
       \/ flush.pc = "sleep" /\ clock >= flush.wake
    /\ LET r == FlushScan(LOG_BUFFERS, LAST_SEND_TS, BufKeys(LOG_BUFFERS), clock, JOBS)
       IN  /\ LOG_BUFFERS' = r.bufs
           /\ LAST_SEND_TS' = r.last
           /\ flush' = FlushAfter(r, clock, clock)
           /\ sends' = IF r.cur # None
                       THEN Append(sends, SendCall(r.cur[1].to, r.cur[1].text))
                       ELSE sends
    /\ UNCHANGED <<NATS_CLIENT, JOBS, hooks, nreq, secrets, responses, published, created,
                   clock>>
    /\ UNCHANGED <<busVars, cfgVars, runVars>>

\* The send of line 155 returns: line 156, then the loop goes on
FlushSendOk ==
    /\ flush.pc = "send"
    /\ LET r == FlushScan(LOG_BUFFERS,
                          SetTs(LAST_SEND_TS, flush.cur[1].job_id, flush.now),
                          flush.rest, flush.now, JOBS)
       IN  /\ LOG_BUFFERS' = r.bufs
           /\ LAST_SEND_TS' = r.last
           /\ flush' = FlushAfter(r, flush.now, clock)
           /\ sends' = IF r.cur # None
                       THEN Append(sends, SendCall(r.cur[1].to, r.cur[1].text))
                       ELSE sends
    /\ UNCHANGED <<NATS_CLIENT, JOBS, hooks, nreq, secrets, responses, published, created,
                   clock>>
    /\ UNCHANGED <<busVars, cfgVars, runVars>>

\* The send of line 155 raises (r.raise_for_status(), a timeout): the
\* exception ends the flush_loop task
FlushSendFail ==
    /\ flush.pc = "send"
    /\ flush' = [pc |-> "dead", now |-> 0, rest |-> <<>>, cur |-> None, wake |-> 0]
    /\ UNCHANGED <<NATS_CLIENT, JOBS, LOG_BUFFERS, LAST_SEND_TS, hooks, nreq, secrets,
                   responses, published, sends, created, clock>>
    /\ UNCHANGED <<busVars, cfgVars, runVars>>

\* Time passes
Tick ==
    /\ clock < MaxTime
    /\ clock' = clock + 1
    /\ UNCHANGED <<ctlVars, busVars, cfgVars, runVars>>

(***************************************************************************)
(* Webhook: waha_webhook (app.py 166-277)                                  *)
(***************************************************************************)

\* Line 246
TIMEOUT_SEC == 1800

\* Lines 231-234: shlex.split((action.get("cmd") or "").strip().strip('"'))
ExecArgv(action) ==
    shlex_split(stripQuotes(strip(IF action.cmd = None THEN <<>> ELSE action.cmd[1])))

\* Lines 256-257: ["cc", "run", "--prompt", prompt]
RunArgv(action) ==
    <<<<"c","c">>, <<"r","u","n">>, <<"-","-","p","r","o","m","p","t">>,
      stripQuotes(action.prompt)>>

\* Lines 240-248, 263-271: the envelope; json.dumps and the runner's
\* json.loads return these values unchanged
Envelope(job_id, host, cmd) ==
    [jobId |-> job_id, runnerId |-> host, cwd |-> None, cmd |-> cmd,
     env |-> <<>>, timeoutSec |-> TIMEOUT_SEC, sandbox |-> "host"]

\* Lines 239, 262: the registry entry of a new job
NewJob(cmdline, chat_id) ==
    [status |-> S_running, cmd |-> cmdline, chatId |-> chat_id]

\* The command line kept in the registry: cmd_str (line 239), " ".join(cmd)
\* (line 262)
ExecCmdline(action) == IF action.cmd = None THEN <<>> ELSE action.cmd[1]

Response(chat, text, result) == [chat |-> chat, text |-> text, result |-> result]

\* A handler suspended in NATS_CLIENT.publish (lines 225, 250, 273) and the
\* acknowledgment it sends next (lines 226, 251, 274)
Hook(chat, text, msg, ack) == [chat |-> chat, text |-> text, msg |-> msg, ack |-> ack]

JobsMsg(host, envelope) == [subject |-> JobsSubject(host), env |-> envelope]

StopMsg(job_id) == [subject |-> StopSubject, data |-> job_id]

\* The outcome of awaiting send_whatsapp_text as the last statement of the
\* handler: the return value, or the exception as a 500 response
SendResult(ok, result) == IF ok THEN result ELSE "500"

\* Lines 238-252 and 261-275: the cmd passed the allowlist
Dispatch(chat, text, host, cmd, cmdline, job_id, ack, sendOk) ==
    /\ JOBS' = SetJob(JOBS, job_id, NewJob(cmdline, chat))
    /\ created' = Append(created, job_id)
    /\ IF NATS_CLIENT
       THEN /\ hooks' = Append(hooks, Hook(chat, text,
                                JobsMsg(host, Envelope(job_id, host, cmd)), ack))
            /\ UNCHANGED <<sends, responses>>
       ELSE /\ sends' = Append(sends, SendCall(chat, ack))
            /\ responses' = Append(responses,
                                Response(Some(chat), text, SendResult(sendOk, "ok_true")))
            /\ UNCHANGED hooks

\* Mutant: the job is registered before the allowlist is consulted
RejectRegistered(chat, text, sendOk) ==
    /\ sends' = Append(sends, SendCall(chat, [kind |-> "not_allowed"]))
    /\ responses' = Append(responses,
                        Response(Some(chat), text, SendResult(sendOk, "ok_false")))
    /\ JOBS' = SetJob(JOBS, ID_A, NewJob(<<>>, chat))
    /\ UNCHANGED <<created, hooks>>

\* Line 29: the default of INCOMING_SECRET
INCOMING_SECRET == "replace_me"

\* Mutant: every header passes
authorize_any(secret) == TRUE

\* authorize (lines 62-65): the header equals the secret (otherwise the
\* HTTPException of line 65 ends the request with status 403)
authorize(secret) == secret = Some(INCOMING_SECRET)

\* Lines 235-237 and 258-260: the cmd did not pass
Reject(chat, text, sendOk) ==
    /\ sends' = Append(sends, SendCall(chat, [kind |-> "not_allowed"]))
    /\ responses' = Append(responses,
                        Response(Some(chat), text, SendResult(sendOk, "ok_false")))
    /\ UNCHANGED <<JOBS, created, hooks>>

\* The handler from its start to its first await of a bus publish, or to its
\* end. secret: the X-Webhook-Secret header, None when there is none; chat:
\* the conversation id extracted from the body, None when there is none;
\* job_id: the value of uuid.uuid4().hex[:6]; sendOk: the outcome of the
\* handler's send_whatsapp_text.
WebhookStart(secret, chat, text, job_id, sendOk) ==
    /\ nreq < MaxReq
    /\ nreq' = nreq + 1
    /\ secrets' = Append(secrets, secret)
    /\ LET action == Parsed[text]
           c == chat[1]
       IN  IF ~authorize(secret) THEN
               /\ responses' = Append(responses, Response(chat, text, "403"))
               /\ UNCHANGED <<JOBS, created, hooks, sends>>
           ELSE IF chat = None THEN
               /\ responses' = Append(responses, Response(chat, text, "400"))
               /\ UNCHANGED <<JOBS, created, hooks, sends>>
           ELSE IF action.type = "logs" THEN
               /\ sends' = Append(sends, SendCall(c,
                     [kind |-> "job",
                      body |-> IF action.job_id \in DOMAIN JOBS
                               THEN Some(JOBS[action.job_id]) ELSE None]))
               /\ responses' = Append(responses,
                                   Response(chat, text, SendResult(sendOk, "ok_true")))
               /\ UNCHANGED <<JOBS, created, hooks>>
           ELSE IF action.type = "stop" THEN
               /\ IF NATS_CLIENT
                  THEN /\ hooks' = Append(hooks, Hook(c, text, StopMsg(action.job_id),
                                        [kind |-> "stop", job_id |-> action.job_id]))
                       /\ UNCHANGED <<sends, responses>>
                  ELSE /\ sends' = Append(sends, SendCall(c,
                                        [kind |-> "stop", job_id |-> action.job_id]))
                       /\ responses' = Append(responses,
                                        Response(chat, text, SendResult(sendOk, "ok_true")))
                       /\ UNCHANGED hooks
               /\ UNCHANGED <<JOBS, created>>
           ELSE IF action.type = "exec" THEN
               IF ~ExecArgv(action).ok THEN
                   \* shlex.split raises ValueError, which nothing catches
                   /\ responses' = Append(responses, Response(chat, text, "500"))
                   /\ UNCHANGED <<JOBS, created, hooks, sends>>
               ELSE IF ~allowlisted(ExecArgv(action).toks, AllowSets[ctlAllow]) THEN
                   Reject(c, text, sendOk)
               ELSE
                   Dispatch(c, text, action.host, ExecArgv(action).toks,
                            ExecCmdline(action), job_id,
                            [kind |-> "queued", job_id |-> job_id,
                             cmd |-> Some(ExecCmdline(action))], sendOk)
           ELSE IF action.type = "run" THEN
               IF ~allowlisted(RunArgv(action), AllowSets[ctlAllow]) THEN
                   Reject(c, text, sendOk)
               ELSE
                   Dispatch(c, text, action.host, RunArgv(action),
                            join(RunArgv(action)), job_id,
                            [kind |-> "queued", job_id |-> job_id, cmd |-> None],
                            sendOk)
           ELSE
               \* noop (line 214), hosts (line 277)
               /\ responses' = Append(responses, Response(chat, text, "ok_true"))
               /\ UNCHANGED <<JOBS, created, hooks, sends>>
    /\ UNCHANGED <<NATS_CLIENT, LOG_BUFFERS, LAST_SEND_TS, flush, published, clock>>
    /\ UNCHANGED <<busVars, cfgVars, runVars>>

RemoveAt(seq, i) == Take(seq, i - 1) \o Drop(seq, i)

\* Messages on runner.<RUNNER_ID>.jobs reach the runner's subscription
Deliver(q, msg) ==
    IF msg.subject = JobsSubject(RUNNER_ID) THEN Append(q, Some(msg.env)) ELSE q

\* The publish of handler i returns, and the handler runs to its end
WebhookPublished(i, sendOk) ==
    /\ i \in 1..Len(hooks)
    /\ published' = Append(published, hooks[i].msg)
    /\ jobsQ' = Deliver(jobsQ, hooks[i].msg)
    /\ sends' = Append(sends, SendCall(hooks[i].chat, hooks[i].ack))
    /\ responses' = Append(responses,
                        Response(Some(hooks[i].chat), hooks[i].text,
                                 SendResult(sendOk, "ok_true")))
    /\ hooks' = RemoveAt(hooks, i)
    /\ UNCHANGED <<NATS_CLIENT, JOBS, LOG_BUFFERS, LAST_SEND_TS, flush, nreq, secrets,
                   created, clock, logsQ, doneQ>>
    /\ UNCHANGED <<cfgVars, runVars>>

\* The publish of handler i raises: the exception ends the handler
WebhookPublishFail(i) ==
    /\ i \in 1..Len(hooks)
    /\ responses' = Append(responses,
                        Response(Some(hooks[i].chat), hooks[i].text, "500"))
    /\ hooks' = RemoveAt(hooks, i)
    /\ UNCHANGED <<NATS_CLIENT, JOBS, LOG_BUFFERS, LAST_SEND_TS, flush, nreq, secrets,
                   published, sends, created, clock>>
    /\ UNCHANGED <<busVars, cfgVars, runVars>>

\* The logs subscription delivers its next message to logs_handler
LogsDeliver ==
    /\ logsQ # <<>>
    /\ LOG_BUFFERS' = logs_handler(LOG_BUFFERS, Head(logsQ))
    /\ logsQ' = Tail(logsQ)
    /\ UNCHANGED <<NATS_CLIENT, JOBS, LAST_SEND_TS, flush, hooks, nreq, secrets, responses,
                   published, sends, created, clock, jobsQ, doneQ>>
    /\ UNCHANGED <<cfgVars, runVars>>

\* The done subscription delivers its next message to done_handler
DoneDeliver ==
    /\ doneQ # <<>>
    /\ JOBS' = done_handler(JOBS, Head(doneQ))
    /\ doneQ' = Tail(doneQ)
    /\ UNCHANGED <<NATS_CLIENT, LOG_BUFFERS, LAST_SEND_TS, flush, hooks, nreq, secrets,
                   responses, published, sends, created, clock, jobsQ, logsQ>>
    /\ UNCHANGED <<cfgVars, runVars>>

(***************************************************************************)
(* Runner: handler and exec_and_stream (runner.py 21-75)                   *)
(***************************************************************************)

\* Envelopes other bus clients publish on runner.<RUNNER_ID>.jobs
MaxForeign == 2

\* Lines a child writes on each of its streams
MaxOut == 1

\* Lines the child of LongCmd writes on each of its streams
MaxLong == 2

\* A command with a longer output
LongCmd == <<<<"g","i","t">>, <<"d","i","f","f">>>>

\* Lines the child of cmd writes on each of its streams
LinesOfChild(cmd) == IF cmd = LongCmd THEN MaxLong ELSE MaxOut

\* Line 27: the exit code of a rejected command
REJECT_CODE == 126

\* Line 57: the exit code of an internal error
ERROR_CODE == 1

\* Exit codes of a child process
ExitCodes == {0, 2}

\* A job id no webhook assigned
ID_X == <<"0","d","d","b","a","1">>

\* Payloads of other bus clients: bytes json.loads rejects (None), and
\* envelopes with an empty cmd, a cmd no allowlist holds and a cmd every
\* allowlist of the model holds
ForeignPayloads ==
    {None,
     Some(Envelope(ID_X, RUNNER_ID, <<>>)),
     Some(Envelope(ID_X, RUNNER_ID, <<<<"r","m">>, <<"-","r","f">>>>)),
     Some(Envelope(ID_A, RUNNER_ID, <<<<"g","i","t">>, <<"l","o","g">>>>))}

\* Stream markers of line 47 (the first one is U+25B8 in the source)
MARK_OUT == <<">">>

MARK_ERR == <<"!">>

\* The k-th line a child writes on a stream, as readline returns it
ChildLine(stream, k) ==
    (IF stream = "out" THEN <<"o">> ELSE <<"e">>) \o IntStr(k) \o <<"\n">>

\* Line 44: f"{label} {line.decode(errors='ignore')}"
ChunkText(stream, line) ==
    (IF stream = "out" THEN MARK_OUT ELSE MARK_ERR) \o <<" ">> \o line

S_not_allowed == <<"c","o","m","m","a","n","d"," ","n","o","t"," ","a","l","l","o","w","e","d">>

S_error == <<"!"," ","e","r","r","o","r",":"," ">>

BusMsg(subject, data) == [subject |-> subject, data |-> data]

\* Line 26: the log chunk of a rejected envelope
RejectLog(job_id) == BusMsg(LogsSubject(job_id), S_not_allowed)

\* Line 27: f"{job_id}|exit-126"
RejectDone(job_id) ==
    BusMsg(DoneSubject, DonePayload(job_id, S_exit \o IntStr(REJECT_CODE)))

\* Lines 49-51: f"{job_id}|{rc}"
ExitDone(job_id, rc) == BusMsg(DoneSubject, DonePayload(job_id, IntStr(rc)))

\* Lines 53-55: f"! error: {e}" (the text of the exception is left out)
ErrorLog(job_id) == BusMsg(LogsSubject(job_id), S_error)

\* Lines 56-58: f"{job_id}|exit-1"
ErrorDone(job_id) ==
    BusMsg(DoneSubject, DonePayload(job_id, S_exit \o IntStr(ERROR_CODE)))

\* A task of exec_and_stream: its envelope, the statement it is suspended
\* at, whether a child was spawned, the lines read from the child's streams,
\* the state of the two pumps and the exit code of the completion notice it
\* published (None before)
Task(job_id, cmd, pc) ==
    [job_id |-> job_id, cmd |-> cmd, pc |-> pc, spawned |-> FALSE,
     out |-> 0, err |-> 0, pout |-> "idle", perr |-> "idle", code |-> None]

\* nc.publish of task t: the message is on the bus, and pending for the
\* control node's subscription when there is one
RunnerPublish(t, msg, isLog) ==
    /\ rpub' = Append(rpub, [task |-> t, subject |-> msg.subject, data |-> msg.data])
    /\ logsQ' = IF NATS_CLIENT /\ isLog THEN Append(logsQ, msg) ELSE logsQ
    /\ doneQ' = IF NATS_CLIENT /\ ~isLog THEN Append(doneQ, msg) ELSE doneQ

\* Another bus client publishes on the runner's job subject
ForeignPublish(payload) ==
    /\ nforeign < MaxForeign
    /\ nforeign' = nforeign + 1
    /\ jobsQ' = Append(jobsQ, payload)
    /\ UNCHANGED <<ctlVars, cfgVars, clock, logsQ, doneQ, tasks, rpub, narrive>>

\* handler (lines 65-70) and the start of the task it creates, up to the
\* task's first await (lines 22-26 or 22-30). pubOk: the publish of line 26
\* returns rather than raises.
RunnerReceive(pubOk) ==
    /\ jobsQ # <<>>
    /\ jobsQ' = Tail(jobsQ)
    /\ LET payload == Head(jobsQ)
           job == payload[1]
       IN  IF payload = None THEN
               \* json.loads raises: return
               UNCHANGED <<tasks, rpub, logsQ, doneQ>>
           ELSE IF ~allowlisted(job.cmd, AllowSets[runAllow]) THEN
               IF pubOk
               THEN /\ tasks' = Append(tasks, Task(job.jobId, job.cmd, "rej_done"))
                    /\ RunnerPublish(Len(tasks) + 1, RejectLog(job.jobId), TRUE)
               ELSE /\ tasks' = Append(tasks, Task(job.jobId, job.cmd, "crashed"))
                    /\ UNCHANGED <<rpub, logsQ, doneQ>>
           ELSE
               /\ tasks' = Append(tasks, Task(job.jobId, job.cmd, "spawn"))
               /\ UNCHANGED <<rpub, logsQ, doneQ>>
    /\ UNCHANGED <<ctlVars, cfgVars, clock, nforeign, narrive>>

\* Line 27: the completion notice of a rejected envelope
TaskRejectDone(t, pubOk) ==
    /\ t \in 1..Len(tasks)
    /\ tasks[t].pc = "rej_done"
    /\ IF pubOk
       THEN /\ tasks' = [tasks EXCEPT ![t].pc = "finished",
                                     ![t].code = Some(REJECT_CODE)]
            /\ RunnerPublish(t, RejectDone(tasks[t].job_id), FALSE)
       ELSE /\ tasks' = [tasks EXCEPT ![t].pc = "crashed"]
            /\ UNCHANGED <<rpub, logsQ, doneQ>>
    /\ UNCHANGED <<ctlVars, cfgVars, clock, nforeign, narrive, jobsQ>>

\* Lines 30-35 return a process: the two pumps of line 47 start
TaskSpawn(t) ==
    /\ t \in 1..Len(tasks)
    /\ tasks[t].pc = "spawn"
    /\ tasks' = [tasks EXCEPT ![t].pc = "pump", ![t].spawned = TRUE,
                              ![t].pout = "run", ![t].perr = "run"]
    /\ UNCHANGED <<ctlVars, cfgVars, busVars, clock, nforeign, narrive, rpub>>

\* Lines 30-35 raise (the executable is not found): the except clause
\* starts
TaskSpawnFail(t) ==
    /\ t \in 1..Len(tasks)
    /\ tasks[t].pc = "spawn"
    /\ tasks' = [tasks EXCEPT ![t].pc = "exc_log"]
    /\ UNCHANGED <<ctlVars, cfgVars, busVars, clock, nforeign, narrive, rpub>>

PumpOf(task, stream) == IF stream = "out" THEN task.pout ELSE task.perr

CountOf(task, stream) == IF stream = "out" THEN task.out ELSE task.err

\* pump, lines 39-45: readline returns the child's next line and the chunk
\* is published
PumpLine(t, stream) ==
    /\ t \in 1..Len(tasks)
    /\ PumpOf(tasks[t], stream) = "run"
    /\ CountOf(tasks[t], stream) < LinesOfChild(tasks[t].cmd)
    /\ tasks' = IF stream = "out"
                THEN [tasks EXCEPT ![t].out = @ + 1]
                ELSE [tasks EXCEPT ![t].err = @ + 1]
    /\ RunnerPublish(t, BusMsg(LogsSubject(tasks[t].job_id),
                            ChunkText(stream,
                                ChildLine(stream, CountOf(tasks[t], stream) + 1))),
                     TRUE)
    /\ UNCHANGED <<ctlVars, cfgVars, clock, nforeign, narrive, jobsQ>>

\* pump, lines 39-41: readline returns b"" at the end of the stream
PumpEnd(t, stream) ==
    /\ t \in 1..Len(tasks)
    /\ PumpOf(tasks[t], stream) = "run"
    /\ tasks' = IF stream = "out"
                THEN [tasks EXCEPT ![t].pout = "eof"]
                ELSE [tasks EXCEPT ![t].perr = "eof"]
    /\ UNCHANGED <<ctlVars, cfgVars, busVars, clock, nforeign, narrive, rpub>>

\* pump: readline or the publish of line 42 raises. gather hands the first
\* exception to exec_and_stream (the except clause starts) and leaves the
\* other pump running.
PumpFail(t, stream) ==
    /\ t \in 1..Len(tasks)
    /\ PumpOf(tasks[t], stream) = "run"
    /\ tasks' = [tasks EXCEPT
                    ![t].pout = IF stream = "out" THEN "failed" ELSE @,
                    ![t].perr = IF stream = "err" THEN "failed" ELSE @,
                    ![t].pc = IF @ = "pump" THEN "exc_log" ELSE @]
    /\ UNCHANGED <<ctlVars, cfgVars, busVars, clock, nforeign, narrive, rpub>>

\* Mutant: the completion notice waits for the pump of stdout only
TaskExit_early(t, rc, pubOk) ==
    /\ t \in 1..Len(tasks)
    /\ tasks[t].pc = "pump"
    /\ tasks[t].pout = "eof"
    /\ IF pubOk
       THEN /\ tasks' = [tasks EXCEPT ![t].pc = "finished", ![t].code = Some(rc)]
            /\ RunnerPublish(t, ExitDone(tasks[t].job_id, rc), FALSE)
       ELSE /\ tasks' = [tasks EXCEPT ![t].pc = "exc_log"]
            /\ UNCHANGED <<rpub, logsQ, doneQ>>
    /\ UNCHANGED <<ctlVars, cfgVars, clock, nforeign, narrive, jobsQ>>

\* Lines 47-51: both pumps returned, the child exited with rc, and the
\* completion notice is published; a publish that raises starts the except
\* clause
TaskExit(t, rc, pubOk) ==
    /\ t \in 1..Len(tasks)
    /\ tasks[t].pc = "pump"
    /\ tasks[t].pout = "eof"
    /\ tasks[t].perr = "eof"
    /\ IF pubOk
       THEN /\ tasks' = [tasks EXCEPT ![t].pc = "finished", ![t].code = Some(rc)]
            /\ RunnerPublish(t, ExitDone(tasks[t].job_id, rc), FALSE)
       ELSE /\ tasks' = [tasks EXCEPT ![t].pc = "exc_log"]
            /\ UNCHANGED <<rpub, logsQ, doneQ>>
    /\ UNCHANGED <<ctlVars, cfgVars, clock, nforeign, narrive, jobsQ>>

\* Lines 53-55: the log chunk of the except clause; a publish that raises
\* ends the task
TaskErrorLog(t, pubOk) ==
    /\ t \in 1..Len(tasks)
    /\ tasks[t].pc = "exc_log"
    /\ IF pubOk
       THEN /\ tasks' = [tasks EXCEPT ![t].pc = "exc_done"]
            /\ RunnerPublish(t, ErrorLog(tasks[t].job_id), TRUE)
       ELSE /\ tasks' = [tasks EXCEPT ![t].pc = "crashed"]
            /\ UNCHANGED <<rpub, logsQ, doneQ>>
    /\ UNCHANGED <<ctlVars, cfgVars, clock, nforeign, narrive, jobsQ>>

\* Lines 56-58: the completion notice of the except clause
TaskErrorDone(t, pubOk) ==
    /\ t \in 1..Len(tasks)
    /\ tasks[t].pc = "exc_done"
    /\ IF pubOk
       THEN /\ tasks' = [tasks EXCEPT ![t].pc = "finished",
                                     ![t].code = Some(ERROR_CODE)]
            /\ RunnerPublish(t, ErrorDone(tasks[t].job_id), FALSE)
       ELSE /\ tasks' = [tasks EXCEPT ![t].pc = "crashed"]
            /\ UNCHANGED <<rpub, logsQ, doneQ>>
    /\ UNCHANGED <<ctlVars, cfgVars, clock, nforeign, narrive, jobsQ>>

(***************************************************************************)
(* Bus messages handed to the control node's subscriptions                 *)
(***************************************************************************)

\* Bus messages the environment hands to the control node in one behaviour
MaxArrive == 2

\* Number of the first line the environment hands over
LineBase == 20

\* Log chunks as a runner publishes them (line 42-45), each with a new line
EnvLogs ==
    {BusMsg(LogsSubject(j), ChunkText("out", ChildLine("out", LineBase + narrive + 1))) :
        j \in {ID_A, ID_B, ID_X}}

\* Completion notices as a runner publishes them (lines 27, 49-51, 56-58)
EnvDones ==
    {ExitDone(ID_A, 0), ExitDone(ID_B, 2), RejectDone(ID_A), ErrorDone(ID_B),
     ExitDone(ID_X, 0), RejectDone(ID_X)}

\* logs_handler called with a message of some runner
LogsArrive(msg) ==
    /\ NATS_CLIENT
    /\ narrive < MaxArrive
    /\ narrive' = narrive + 1
    /\ LOG_BUFFERS' = logs_handler(LOG_BUFFERS, msg)
    /\ UNCHANGED <<NATS_CLIENT, JOBS, LAST_SEND_TS, flush, hooks, nreq, secrets, responses,
                   published, sends, created, clock, tasks, rpub, nforeign>>
    /\ UNCHANGED <<cfgVars, busVars>>

\* done_handler called with a message of some runner
DoneArrive(msg) ==
    /\ NATS_CLIENT
    /\ narrive < MaxArrive
    /\ narrive' = narrive + 1
    /\ JOBS' = done_handler(JOBS, msg)
    /\ UNCHANGED <<NATS_CLIENT, LOG_BUFFERS, LAST_SEND_TS, flush, hooks, nreq, secrets,
                   responses, published, sends, created, clock, tasks, rpub,
                   nforeign>>
    /\ UNCHANGED <<cfgVars, busVars>>

(***************************************************************************)
(* Specifications                                                          *)
(***************************************************************************)

\* First value of the clock: time.time() is far above FLUSH_AGE
StartTime == 2

vars == <<ctlVars, busVars, cfgVars, runVars, clock>>

EmptyMap == [j \in {} |-> 0]

FlushStart == [pc |-> "start", now |-> 0, rest |-> <<>>, cur |-> None, wake |-> 0]

\* The state after the start of both processes (app.py 37-40, 160-163;
\* runner.py 61-72)
Init ==
    /\ ctlAllow \in CtlAllowlists
    /\ runAllow \in RunnerAllowlists
    /\ NATS_CLIENT \in BOOLEAN
    /\ JOBS = EmptyMap
    /\ LOG_BUFFERS = <<>>
    /\ LAST_SEND_TS = EmptyMap
    /\ clock = StartTime
    /\ flush = FlushStart
    /\ hooks = <<>>
    /\ nreq = 0
    /\ secrets = <<>>
    /\ responses = <<>>
    /\ published = <<>>
    /\ sends = <<>>
    /\ created = <<>>
    /\ jobsQ = <<>>
    /\ logsQ = <<>>
    /\ doneQ = <<>>
    /\ tasks = <<>>
    /\ rpub = <<>>
    /\ nforeign = 0
    /\ narrive = 0

Streams == {"out", "err"}

\* Webhook requests: every text from one conversation, a job request from a
\* second one, requests with a wrong secret and without the header, and one
\* without a conversation
Requests ==
    {<<Some(INCOMING_SECRET), Some("c1"), t>> : t \in Texts}
        \cup {<<Some(INCOMING_SECRET), Some("c2"), T_exec_git>>,
              <<Some("guess"), Some("c1"), T_exec_git>>,
              <<None, Some("c1"), T_stop>>,
              <<Some(INCOMING_SECRET), None, T_exec_git>>}

Webhook ==
    \E r \in Requests, job_id \in JobIds, sendOk \in BOOLEAN :
        WebhookStart(r[1], r[2], r[3], job_id, sendOk)

\* Texts that ask for a command on the runner
ExecTexts == {T_exec_git, T_exec_npm}

\* A webhook request that asks for a command on the runner
WebhookExec ==
    /\ Len(created) < MaxJobs
    /\ \E chat \in Chats, text \in ExecTexts, job_id \in JobIds, sendOk \in BOOLEAN :
          WebhookStart(Some(INCOMING_SECRET), Some(chat), text, job_id, sendOk)

Published == \E i \in 1..Len(hooks), sendOk \in BOOLEAN : WebhookPublished(i, sendOk)

PublishFail == \E i \in 1..Len(hooks) : WebhookPublishFail(i)

Flush == FlushCycle \/ FlushSendOk \/ FlushSendFail

Runner ==
    \/ \E pubOk \in BOOLEAN : RunnerReceive(pubOk)
    \/ \E t \in 1..Len(tasks), pubOk \in BOOLEAN : TaskRejectDone(t, pubOk)
    \/ \E t \in 1..Len(tasks) : TaskSpawn(t)
    \/ \E t \in 1..Len(tasks) : TaskSpawnFail(t)
    \/ \E t \in 1..Len(tasks), stream \in Streams : PumpLine(t, stream)
    \/ \E t \in 1..Len(tasks), stream \in Streams : PumpEnd(t, stream)
    \/ \E t \in 1..Len(tasks), stream \in Streams : PumpFail(t, stream)
    \/ \E t \in 1..Len(tasks), rc \in ExitCodes, pubOk \in BOOLEAN :
          TaskExit(t, rc, pubOk)
    \/ \E t \in 1..Len(tasks), pubOk \in BOOLEAN : TaskErrorLog(t, pubOk)
    \/ \E t \in 1..Len(tasks), pubOk \in BOOLEAN : TaskErrorDone(t, pubOk)

\* The whole system: a control node with the default allowlist and a
\* connected bus client, the bus and the runner
InitSystem == Init /\ ctlAllow = DEFAULT_ALLOWLIST /\ NATS_CLIENT

Next ==
    \/ WebhookExec
    \/ Published
    \/ PublishFail
    \/ LogsDeliver
    \/ DoneDeliver
    \/ Runner

Spec == InitSystem /\ [][Next]_vars

\* The webhook of the control node
InitWebhook == Init /\ runAllow = DEFAULT_ALLOWLIST

NextWebhook ==
    \/ Webhook
    \/ Published
    \/ PublishFail

SpecWebhook == InitWebhook /\ [][NextWebhook]_vars

\* The control node, with the bus messages of the runners as inputs
NextControl ==
    \/ WebhookExec
    \/ Published
    \/ PublishFail
    \/ \E msg \in EnvLogs : LogsArrive(msg)
    \/ \E msg \in EnvDones : DoneArrive(msg)
    \/ Flush
    \/ Tick

SpecControl == InitWebhook /\ [][NextControl]_vars

\* The runner, with the envelopes of its job subject as inputs
InitRunner == Init /\ ctlAllow = DEFAULT_ALLOWLIST /\ NATS_CLIENT

NextRunner ==
    \/ \E payload \in ForeignPayloads : ForeignPublish(payload)
    \/ Runner

SpecRunner == InitRunner /\ [][NextRunner]_vars

\* The flush scheduler on buffers of every size around FLUSH_BATCH. The
\* initial states are states of the control node one second after its
\* start: conversation c1 asked for T_exec_git, which became job ID_A; a
\* completion notice named ID_B, which no webhook created (its entry holds no
\* chatId); log chunks came for ID_A, ID_B and ID_X, which has no entry; the
\* flush loop ran its first pass at StartTime and sleeps. A buffer the first
\* pass flushed has a timestamp, and an empty buffer has been flushed.
BufSizes == {0, 3, 12, 15}

\* The lines of a buffer: n chunks of a runner, as logs_handler stores them
Lines(n) == [k \in 1..n |-> rstrip(ChunkText("out", ChildLine("out", k)))]

FlushJobs == <<ID_A, ID_B, ID_X>>

InitFlush ==
    /\ ctlAllow = DEFAULT_ALLOWLIST
    /\ runAllow = DEFAULT_ALLOWLIST
    /\ NATS_CLIENT = TRUE
    /\ JOBS = SetJob(SetJob(EmptyMap, ID_A, NewJob(ExecCmdline(Parsed[T_exec_git]), "c1")),
                     ID_B, [status |-> ExitStatus(IntStr(0))])
    /\ \E n \in [1..3 -> BufSizes], flushed \in SUBSET {1, 2, 3} :
        /\ \A k \in 1..3 : n[k] = 0 => k \in flushed
        /\ LOG_BUFFERS = [k \in 1..3 |-> [job_id |-> FlushJobs[k], lines |-> Lines(n[k])]]
        /\ LAST_SEND_TS = [j \in {FlushJobs[k] : k \in flushed} |-> StartTime]
        /\ sends = <<SendCall("c1", [kind |-> "queued", job_id |-> ID_A,
                                     cmd |-> Some(ExecCmdline(Parsed[T_exec_git]))])>>
                   \o (IF 1 \in flushed
                       THEN <<SendCall("c1", BatchText(ID_A,
                                <<rstrip(ChunkText("err", ChildLine("err", 1)))>>))>>
                       ELSE <<>>)
    /\ clock = StartTime + FLUSH_SLEEP
    /\ flush = [pc |-> "sleep", now |-> 0, rest |-> <<>>, cur |-> None,
                wake |-> StartTime + FLUSH_SLEEP]
    /\ hooks = <<>>
    /\ nreq = 1
    /\ secrets = <<Some(INCOMING_SECRET)>>
    /\ responses = <<Response(Some("c1"), T_exec_git, "ok_true")>>
    /\ published = <<JobsMsg(S_dev, Envelope(ID_A, S_dev, ExecArgv(Parsed[T_exec_git]).toks))>>
    /\ created = <<ID_A>>
    /\ jobsQ = <<>>
    /\ logsQ = <<>>
    /\ doneQ = <<>>
    /\ tasks = <<>>
    /\ rpub = <<>>
    /\ nforeign = 0
    /\ narrive = 0

NextFlush ==
    \/ \E msg \in EnvLogs : LogsArrive(msg)
    \/ Flush
    \/ Tick

SpecFlush == InitFlush /\ [][NextFlush]_vars

\* The routing of log batches: conversations ask for T_exec_git with a
\* connected bus client, runners send log chunks and completion notices,
\* and the flush loop runs
InitRouting == Init /\ ctlAllow = DEFAULT_ALLOWLIST /\ runAllow = DEFAULT_ALLOWLIST
                    /\ NATS_CLIENT

WebhookGit ==
    \E chat \in Chats, job_id \in JobIds :
        WebhookStart(Some(INCOMING_SECRET), Some(chat), T_exec_git, job_id, TRUE)

NextRouting ==
    \/ WebhookGit
    \/ Published
    \/ \E msg \in EnvLogs : LogsArrive(msg)
    \/ \E msg \in EnvDones : DoneArrive(msg)
    \/ Flush
    \/ Tick

SpecRouting == InitRouting /\ [][NextRouting]_vars

\* One envelope on the runner: LongCmd, whose child writes MaxLong lines on
\* each stream, or a command no allowlist holds
StreamPayloads ==
    {Some(Envelope(ID_B, RUNNER_ID, LongCmd)),
     Some(Envelope(ID_X, RUNNER_ID, <<<<"r","m">>, <<"-","r","f">>>>))}

NextStreams ==
    \/ \E payload \in StreamPayloads : nforeign = 0 /\ ForeignPublish(payload)
    \/ Runner

SpecStreams == InitRunner /\ [][NextStreams]_vars

(***************************************************************************)
(* Claims                                                                  *)
(***************************************************************************)

\* C1: every job envelope the control node has published on a jobs subject,
\* from /exec or from /run, has a non-empty cmd whose first element is a
\* member of the configured allowlist.
C1_EnvelopesAllowlisted ==
    \A k \in 1..Len(published) :
        "env" \in DOMAIN published[k] =>
            /\ published[k].env.cmd # <<>>
            /\ published[k].env.cmd[1] \in AllowSets[ctlAllow]

\* An /exec envelope and a /run envelope have been published
C1_Witness ==
    \E k1, k2 \in 1..Len(published) :
        /\ "env" \in DOMAIN published[k1]
        /\ published[k1].env.cmd = <<<<"g","i","t">>, <<"s","t","a","t","u","s">>>>
        /\ "env" \in DOMAIN published[k2]
        /\ published[k2].env.cmd[1] = <<"c","c">>

\* The text of the request a step starts to handle, and its conversation
StartedText ==
    IF Len(hooks') > Len(hooks)
    THEN hooks'[Len(hooks')].text
    ELSE responses'[Len(responses')].text

StartedChat ==
    IF Len(hooks') > Len(hooks)
    THEN Some(hooks'[Len(hooks')].chat)
    ELSE responses'[Len(responses')].chat

\* The step starts to handle an authorized request that has a conversation
StartedAuthorized ==
    /\ nreq' = nreq + 1
    /\ \/ Len(hooks') > Len(hooks)
       \/ responses'[Len(responses')].result \notin {"403", "400"}

\* The text is an /exec or /run whose argv is empty or starts with a name
\* the allowlist does not hold
ResolvesToRejected(text) ==
    LET a == parse_command(text)
    IN  \/ /\ a.type = "exec"
           /\ ExecArgv(a).ok
           /\ \/ ExecArgv(a).toks = <<>>
              \/ ExecArgv(a).toks[1] \notin AllowSets[ctlAllow]
        \/ /\ a.type = "run"
           /\ RunArgv(a)[1] \notin AllowSets[ctlAllow]

\* C3: an authorized /exec or /run whose argv is empty or not allowlisted
\* sends one chat message to the requesting conversation and leaves the job
\* registry and the published bus messages unchanged.
C3_PolicyRejection ==
    [][(StartedAuthorized /\ ResolvesToRejected(StartedText)) =>
          /\ JOBS' = JOBS
          /\ created' = created
          /\ published' = published
          /\ hooks' = hooks
          /\ sends' = Append(sends, SendCall(StartedChat[1], [kind |-> "not_allowed"]))
      ]_vars

\* An /exec without a cmd (empty argv), an /exec of rm and a /run under an
\* allowlist without cc have been rejected
C3_Witness ==
    /\ \E k \in 1..Len(responses) :
          /\ responses[k].text \in {T_exec_none, T_exec_rm}
          /\ responses[k].result = "ok_false"
    /\ \E k \in 1..Len(responses) :
          /\ responses[k].text = T_run_dev
          /\ responses[k].result = "ok_false"
    /\ JOBS = EmptyMap
    /\ published = <<>>

\* C7: every job creation uses a job id that is not in the registry.
C7_FreshJobId ==
    [][Len(created') > Len(created) =>
          created'[Len(created')] \notin DOMAIN JOBS]_vars

\* Messages task t published on a subject
PublishedBy(t, subject) ==
    {k \in 1..Len(rpub) : rpub[k].task = t /\ rpub[k].subject = subject}

TaskEnded(t) == tasks[t].pc \in {"finished", "crashed"}

TaskRejected(t) ==
    tasks[t].cmd = <<>> \/ tasks[t].cmd[1] \notin AllowSets[runAllow]

\* C2: for an envelope whose cmd is empty or not in the runner's allowlist
\* the runner publishes exactly one log chunk "command not allowed", exactly
\* one completion notice, with exit code 126, and spawns no child.
C2_RunnerRejection ==
    \A t \in 1..Len(tasks) :
        (TaskRejected(t) /\ TaskEnded(t)) =>
            /\ ~tasks[t].spawned
            /\ Cardinality(PublishedBy(t, LogsSubject(tasks[t].job_id))) = 1
            /\ \A k \in PublishedBy(t, LogsSubject(tasks[t].job_id)) :
                  rpub[k].data = S_not_allowed
            /\ Cardinality(PublishedBy(t, DoneSubject)) = 1
            /\ \A k \in PublishedBy(t, DoneSubject) :
                  rpub[k].data = DonePayload(tasks[t].job_id, IntStr(REJECT_CODE))

\* C4: every envelope the runner started to execute gets exactly one
\* completion notice, on every path.
C4_OneCompletion ==
    \A t \in 1..Len(tasks) :
        /\ Cardinality(PublishedBy(t, DoneSubject)) <= 1
        /\ TaskEnded(t) => Cardinality(PublishedBy(t, DoneSubject)) = 1

\* The control node has processed the completion notice of task t
NoticeProcessed(t) ==
    /\ tasks[t].code # None
    /\ \A k \in 1..Len(doneQ) : SplitBar(doneQ[k].data)[1] # tasks[t].job_id

\* C5: after the completion notice of a job is processed, the job's status
\* is exit-<code> for the exit code the runner reports: the child's on a
\* normal exit, 126 on a rejection, 1 on an internal failure.
C5_StatusIsExitCode ==
    \A t \in 1..Len(tasks) :
        NoticeProcessed(t) =>
            /\ tasks[t].job_id \in DOMAIN JOBS
            /\ JOBS[tasks[t].job_id].status = ExitStatus(IntStr(tasks[t].code[1]))

\* C6: processing a completion notice leaves the set of job ids of the
\* registry as it was, also when the notice names an unknown job.
C6_UnknownJobNoEntry ==
    [][narrive' = narrive + 1 => DOMAIN JOBS' = DOMAIN JOBS]_vars

\* The job ids log chunks arrive for
BufferJobs == {ID_A, ID_B, ID_X}

\* The owning conversation of j can be resolved
Resolvable(j) == j \in DOMAIN JOBS /\ "chatId" \in DOMAIN JOBS[j]

\* The step takes lines out of the buffer of j
Flushed(j) ==
    /\ narrive' = narrive
    /\ BufLines(LOG_BUFFERS', j) # BufLines(LOG_BUFFERS, j)

\* The buffer of j is non-empty and has waited 2 seconds since its last
\* flush (or was never flushed) or holds 12 lines
WaitedOrFull(j) ==
    /\ Len(BufLines(LOG_BUFFERS, j)) > 0
    /\ \/ j \notin DOMAIN LAST_SEND_TS
       \/ clock - LAST_SEND_TS[j] >= 2
       \/ Len(BufLines(LOG_BUFFERS, j)) >= 12

\* The step leaves all but the first min(12, n) lines in the buffer of j
HeadRemoved(j) ==
    LET old == BufLines(LOG_BUFFERS, j)
    IN  BufLines(LOG_BUFFERS', j) = SubSeq(old, Min(12, Len(old)) + 1, Len(old))

\* The step issues one send call: the first min(12, n) lines of j, in order
HeadSent(j) ==
    LET old == BufLines(LOG_BUFFERS, j)
    IN  /\ Len(sends') = Len(sends) + 1
        /\ sends'[Len(sends')].text.kind = "batch"
        /\ sends'[Len(sends')].text.job_id = j
        /\ sends'[Len(sends')].text.lines = SubSeq(old, 1, Min(12, Len(old)))

\* The step issues no send call for a batch of j
NothingSent(j) ==
    \A k \in (Len(sends) + 1)..Len(sends') :
        sends'[k].text.kind = "batch" => sends'[k].text.job_id # j

C9_NoSendUnresolved ==
    [][\A j \in BufferJobs : ~Resolvable(j) => NothingSent(j)]_vars

\* Flush cycles went over the non-empty buffers of ID_X (no entry) and of
\* ID_B (an entry without chatId), and no batch of theirs was sent
C9_Witness ==
    /\ ~Resolvable(ID_X) /\ ~Resolvable(ID_B)
    /\ ID_X \in DOMAIN LAST_SEND_TS /\ LAST_SEND_TS[ID_X] > StartTime
    /\ ID_B \in DOMAIN LAST_SEND_TS /\ LAST_SEND_TS[ID_B] > StartTime
    /\ \A k \in 1..Len(sends) :
          sends[k].text.kind = "batch" => sends[k].text.job_id = ID_A

RECURSIVE SentLines(_, _)
SentLines(ss, j) ==
    IF ss = <<>> THEN <<>>
    ELSE IF Head(ss).text.kind = "batch" /\ Head(ss).text.job_id = j
         THEN Head(ss).text.lines \o SentLines(Tail(ss), j)
         ELSE SentLines(Tail(ss), j)

\* C11: for a job with a resolvable conversation the lines sent, batch by
\* batch, followed by the lines still buffered are the lines the log handler
\* appended, in the order it appended them: a step changes that sequence
\* only by a log chunk adding one line at its end, so the lines sent are a
\* prefix of the lines appended, also when chunks arrive during a send.
C11_SentIsPrefix ==
    [][\A j \in BufferJobs :
          Resolvable(j) =>
              LET old == SentLines(sends, j) \o BufLines(LOG_BUFFERS, j)
                  new == SentLines(sends', j) \o BufLines(LOG_BUFFERS', j)
              IN  \/ new = old
                  \/ /\ narrive' = narrive + 1
                     /\ sends' = sends
                     /\ Len(new) = Len(old) + 1
                     /\ SubSeq(new, 1, Len(old)) = old]_vars

\* The flush loop is suspended in the send of the 3 lines that were all of
\* the buffer of ID_A, and a chunk for ID_A has arrived since
C11_Witness ==
    /\ flush.pc = "send"
    /\ flush.cur[1].job_id = ID_A
    /\ flush.cur[1].text.lines = Lines(3)
    /\ Len(BufLines(LOG_BUFFERS, ID_A)) = 1
    /\ narrive > 0

\* C12: a webhook request whose X-Webhook-Secret header is not the
\* configured secret gets the response 403 and has no side effect: no job
\* is created or modified, no bus message is published or about to be, no
\* chat message is sent and no log buffer changes.
C12_BadSecretNoEffect ==
    [][(nreq' = nreq + 1 /\ secrets'[Len(secrets')] # <<"replace_me">>) =>
          /\ Len(responses') = Len(responses) + 1
          /\ responses'[Len(responses')].result = "403"
          /\ UNCHANGED <<JOBS, created, published, hooks, sends, LOG_BUFFERS,
                         LAST_SEND_TS, jobsQ, logsQ, doneQ>>]_vars

\* After an accepted /exec was acknowledged, a request with a wrong secret
\* was refused
C12_Witness ==
    /\ secrets = <<<<"replace_me">>, <<"guess">>>>
    /\ Len(responses) = 2
    /\ responses[1].result = "ok_true"
    /\ responses[2].result = "403"
    /\ DOMAIN JOBS # {}
    /\ Len(sends) = 1

\* C13: the "Queued job" acknowledgment is sent only for a job whose
\* envelope was published, and a job whose envelope was not published is
\* in the registry with status running.
C13_AckOnlyIfPublished ==
    /\ \A k \in 1..Len(sends) :
          sends[k].text.kind = "queued" =>
              \E m \in 1..Len(published) :
                  /\ "env" \in DOMAIN published[m]
                  /\ published[m].env.jobId = sends[k].text.job_id
    /\ \A k \in 1..Len(created) :
          /\ created[k] \in DOMAIN JOBS
          /\ JOBS[created[k]].status = <<"r","u","n","n","i","n","g">>

\* Accepted requests that were given job id j
CreatedAs(j) == {k \in 1..Len(created) : created[k] = j}

\* Envelopes with job id j among the published messages
EnvelopesOf(j) ==
    {m \in 1..Len(published) :
        "env" \in DOMAIN published[m] /\ published[m].env.jobId = j}

\* Acknowledgments that name job id j
AcksOf(j) ==
    {k \in 1..Len(sends) :
        sends[k].text.kind = "queued" /\ sends[k].text.job_id = j}

\* An envelope published or about to be published names a registered job
RegisteredBeforePublished ==
    /\ \A i \in 1..Len(hooks) :
          "env" \in DOMAIN hooks[i].msg => hooks[i].msg.env.jobId \in DOMAIN JOBS
    /\ \A m \in 1..Len(published) :
          "env" \in DOMAIN published[m] => published[m].env.jobId \in DOMAIN JOBS

\* C14: an accepted /exec or /run makes one new registry entry, and once
\* its handler has ended there is exactly one published envelope and exactly
\* one acknowledgment with its job id; an envelope published or about to be
\* published names a registered job.
C14_OneJobOneEnvelopeOneAck ==
    /\ \A j \in JobIds :
          /\ Cardinality(CreatedAs(j)) <= 1
          /\ CreatedAs(j) # {} => j \in DOMAIN JOBS
          /\ hooks = <<>> =>
                /\ Cardinality(EnvelopesOf(j)) = Cardinality(CreatedAs(j))
                /\ Cardinality(AcksOf(j)) = Cardinality(CreatedAs(j))
    /\ RegisteredBeforePublished

\* The step handles a completion notice
NoticeStep == narrive' = narrive + 1 \/ Len(doneQ') < Len(doneQ)

\* Job j is still registered after the step, and if its entry changed the
\* step handled a completion notice and changed the status only
KeptOrMarkedDone(j) ==
    /\ j \in DOMAIN JOBS'
    /\ JOBS'[j] # JOBS[j] =>
          /\ NoticeStep
          /\ DOMAIN JOBS'[j] = DOMAIN JOBS[j]
          /\ \A f \in DOMAIN JOBS[j] \ {"status"} : JOBS'[j][f] = JOBS[j][f]

\* The step starts an authorized /hosts, /logs or /stop request: the
\* registry stays as it is; a /stop publishes the raw job id on
\* runner.control.stop and replies that the stop was requested, a /logs
\* replies with the job's entry, an empty one for an unknown id
QueryLeavesRegistry ==
    LET a == parse_command(StartedText)
    IN  a.type \in {"hosts", "logs", "stop"} =>
            /\ JOBS' = JOBS
            /\ created' = created
            /\ a.type = "logs" =>
                  /\ Len(sends') = Len(sends) + 1
                  /\ sends'[Len(sends')].text =
                        [kind |-> "job",
                         body |-> IF a.job_id \in DOMAIN JOBS
                                  THEN <<JOBS[a.job_id]>> ELSE <<>>]
            /\ (a.type = "stop" /\ Len(hooks') > Len(hooks)) =>
                  /\ hooks'[Len(hooks')].msg = [subject |-> StopSubject, data |-> a.job_id]
                  /\ hooks'[Len(hooks')].ack = [kind |-> "stop", job_id |-> a.job_id]
            /\ (a.type = "stop" /\ Len(hooks') = Len(hooks)) =>
                  /\ published' = published
                  /\ Len(sends') = Len(sends) + 1
                  /\ sends'[Len(sends')].text = [kind |-> "stop", job_id |-> a.job_id]

\* C15: a registered job is never deleted and its entry changes only when a
\* completion notice is handled, which changes the status only; /hosts,
\* /logs and /stop requests leave the registry unchanged.
C15_RegistryFrame ==
    [][/\ \A j \in DOMAIN JOBS : KeptOrMarkedDone(j)
       /\ StartedAuthorized => QueryLeavesRegistry]_vars

\* C16: every batch of log lines sent for job j went to the conversation
\* that owns j in the registry, the one whose /exec or /run created j, and
\* to no other.
C16_BatchesToOwner ==
    \A k \in 1..Len(sends) :
        sends[k].text.kind = "batch" =>
            /\ Resolvable(sends[k].text.job_id)
            /\ sends[k].to = JOBS[sends[k].text.job_id].chatId

\* Task t ran into an internal failure: the except clause of
\* exec_and_stream started, or an exception ended the task
TaskFailed(t) ==
    \/ tasks[t].pc \in {"exc_log", "exc_done", "crashed"}
    \/ tasks[t].code = <<ERROR_CODE>>

\* C17: when the execution of one envelope has failed, every envelope the
\* runner received after it and is done with has got its own completion
\* notice, exactly one.
C17_LaterJobsComplete ==
    \A t1, t2 \in 1..Len(tasks) :
        (t1 < t2 /\ TaskFailed(t1) /\ TaskEnded(t2)) =>
            Cardinality(PublishedBy(t2, DoneSubject)) = 1

\* C18: an authorized request with a conversation id parses to one command
\* variant, and an /exec or /run request that ends in its first step, on an
\* error or without a bus client, has sent a chat message to the requester.
C18_ErrorsBecomeMessages ==
    [][StartedAuthorized =>
          /\ parse_command(StartedText).type \in
                {"noop", "hosts", "logs", "stop", "exec", "run"}
          /\ (/\ parse_command(StartedText).type \in {"exec", "run"}
              /\ Len(responses') > Len(responses)) =>
                /\ Len(sends') = Len(sends) + 1
                /\ sends'[Len(sends')].to = StartedChat[1]]_vars

\* The last batch among the send calls was taken from the buffer of j
LastBatchOf(j) ==
    \E k \in 1..Len(sends) :
        /\ sends[k].text.kind = "batch"
        /\ sends[k].text.job_id = j
        /\ \A m \in (k + 1)..Len(sends) : sends[m].text.kind # "batch"

\* C19: a send that fails for one job does not stop the flush scheduler for
\* the others: the scheduler has not ended while another job with a
\* resolvable conversation has lines buffered, lines that no later cycle
\* would send.
C19_FlushKeepsRunning ==
    flush.pc = "dead" =>
        \A j \in BufferJobs :
            (Resolvable(j) /\ ~LastBatchOf(j)) => BufLines(LOG_BUFFERS, j) = <<>>

\* The chunks task t published for a stream, in the order of publication
RECURSIVE ChunksOf(_, _, _)
ChunksOf(pub, t, stream) ==
    IF pub = <<>> THEN <<>>
    ELSE IF /\ Head(pub).task = t
            /\ \E k \in 1..MaxLong :
                  Head(pub).data = ChunkText(stream, ChildLine(stream, k))
         THEN <<Head(pub).data>> \o ChunksOf(Tail(pub), t, stream)
         ELSE ChunksOf(Tail(pub), t, stream)

\* The chunks of the first n lines of a stream, in the order the child wrote
\* them
Produced(stream, n) == [k \in 1..n |-> ChunkText(stream, ChildLine(stream, k))]

\* Task t published the completion notice of a child that exited
ExitedNormally(t) == tasks[t].code # <<>> /\ tasks[t].code[1] \in ExitCodes

\* C20: the chunks of each stream are published in the order the child
\* wrote the lines; when the completion notice of a normally exiting job is
\* published both streams are at end of file, every line read has been
\* published, and the notice is the last message of the job.
C20_DoneAfterStreams ==
    \A t \in 1..Len(tasks) :
        /\ \A stream \in Streams :
              ChunksOf(rpub, t, stream) = Produced(stream, CountOf(tasks[t], stream))
        /\ ExitedNormally(t) =>
              /\ tasks[t].pout = "eof"
              /\ tasks[t].perr = "eof"
              /\ \E k \in 1..Len(rpub) :
                    /\ rpub[k].task = t
                    /\ rpub[k].subject = DoneSubject
                    /\ \A m \in (k + 1)..Len(rpub) : rpub[m].task # t

\* A child exited after two lines on each stream; the runner published a
\* chunk of stderr first, the two of stdout between those of stderr, and the
\* completion notice last
C20_Witness ==
    /\ Len(tasks) = 1
    /\ ExitedNormally(1)
    /\ Len(rpub) = 5
    /\ rpub[1].data = ChunkText("err", ChildLine("err", 1))
    /\ rpub[2].data = ChunkText("out", ChildLine("out", 1))
    /\ rpub[3].data = ChunkText("out", ChildLine("out", 2))
    /\ rpub[4].data = ChunkText("err", ChildLine("err", 2))
    /\ rpub[5].subject = DoneSubject

====
